---- MODULE Spec2Model ----
(***************************************************************************)
(* PostCommentForm (src/src/PostCommentForm.tsx): one React component with *)
(* three text fields, an error mapping, one shared isSubmitting flag, and  *)
(* two submit handlers that validate, then schedule a delayed completion   *)
(* with setTimeout.  Strings are sequences of one-character strings so     *)
(* that String.prototype.trim is computed, not assumed.                    *)
(***************************************************************************)
EXTENDS Integers, Sequences, FiniteSets, TLC

VARIABLES
    formData,       \* useState<FormData>: field name -> text
    errors,         \* useState<FormErrors>: field name -> message or undefined
    isSubmitting,   \* useState(false)
    timers,         \* pending setTimeout callbacks, in scheduling order
    console,        \* what the callbacks have passed to console.log, in order
    lastValidated,  \* history: outcome of the last validateForm pass over a field
    editedSince,    \* history: handleInputChange ran on the field since that pass
    lastStep        \* history: the handler or callback that ran last

vars ==
    <<formData, errors, isSubmitting, timers, console,
      lastValidated, editedSince, lastStep>>

\* Submissions the model lets start before it stops accepting new ones.
MaxEvents == 2

Fields == {"postTitle", "postContent", "comment"}

PostFields == {"postTitle", "postContent"}

CommentFields == {"comment"}

\* Characters String.prototype.trim strips (the two the inputs below use).
WhiteSpace == {" ", "\t"}

\* Texts a change event can deliver: empty, whitespace-only, plain, and
\* padded with whitespace on both sides.
InputValues ==
    { <<>>, <<" ", "\t">>, <<"a">>, <<" ", "b", "\t">> }

EmptyString == <<>>

\* An absent key of FormErrors, or one set to undefined: both are falsy.
undefined == "undefined"

RECURSIVE trimStart(_)
trimStart(s) ==
    IF s = <<>> THEN s
    ELSE IF Head(s) \in WhiteSpace THEN trimStart(Tail(s))
    ELSE s

RECURSIVE trimEnd(_)
trimEnd(s) ==
    IF s = <<>> THEN s
    ELSE IF s[Len(s)] \in WhiteSpace THEN trimEnd(SubSeq(s, 1, Len(s) - 1))
    ELSE s

trim(s) == trimEnd(trimStart(s))

\* A validation that forgets to trim.
IsEmptyUntrimmed(fd, field) == fd[field] = EmptyString

\* !formData[field].trim()
IsBlank(fd, field) == trim(fd[field]) = EmptyString

\* The switch of validateForm: the fixed message of each field.
RequiredMessage(field) ==
    CASE field = "postTitle" -> "Post title is required"
      [] field = "postContent" -> "Post content is required"
      [] field = "comment" -> "Comment is required"

\* A validation that stops at the first field it finds empty.
newErrorsFirstOnly(fieldsToValidate) ==
    LET blank == {g \in fieldsToValidate : IsBlank(formData, g)}
        first == IF "postTitle" \in blank THEN {"postTitle"} ELSE blank
    IN  [f \in first |-> RequiredMessage(f)]

\* newErrors after the forEach over the fields to validate.
newErrors(fieldsToValidate) ==
    [f \in {g \in fieldsToValidate : IsBlank(formData, g)} |-> RequiredMessage(f)]

\* setErrors(newErrors): the new errors replace the mapping.
ReplaceErrors(prev, fieldsToValidate) ==
    [f \in Fields |->
        IF f \in DOMAIN newErrors(fieldsToValidate)
        THEN newErrors(fieldsToValidate)[f]
        ELSE undefined]

\* setErrors(prev => ({ ...prev, ...newErrors }))
MergeErrors(prev, fieldsToValidate) ==
    [f \in Fields |->
        IF f \in DOMAIN newErrors(fieldsToValidate)
        THEN newErrors(fieldsToValidate)[f]
        ELSE prev[f]]

\* A result that is true as soon as one field of the subset is valid.
validateFormResultSome(fieldsToValidate) ==
    Cardinality(DOMAIN newErrors(fieldsToValidate)) < Cardinality(fieldsToValidate)

\* A result the handlers cannot fail on.
validateFormResultIgnored(fieldsToValidate) == TRUE

\* Object.keys(newErrors).length === 0
validateFormResult(fieldsToValidate) ==
    Cardinality(DOMAIN newErrors(fieldsToValidate)) = 0

\* validateForm: its effect on the state; the caller reads validateFormResult.
validateForm(fieldsToValidate) ==
    errors' = MergeErrors(errors, fieldsToValidate)

\* Controls that are also disabled while an error is shown.
DisabledWhileInvalid == isSubmitting \/ \E f \in Fields : errors[f] # undefined

\* Controls that ignore the flag.
NeverDisabled == FALSE

\* disabled={isSubmitting} on the three text controls and the two buttons.
disabled == isSubmitting

\* setFormData(prev => ({ ...prev, [field]: value }))
SetField(prev, field, value) == [prev EXCEPT ![field] = value]

\* An edit that leaves the error mapping alone.
KeepErrors(prev, field) == prev

\* An edit that empties the whole error mapping.
ClearAllErrors(prev, field) == [f \in Fields |-> undefined]

\* if (errors[field]) setErrors(prev => ({ ...prev, [field]: undefined }))
ClearError(prev, field) ==
    IF prev[field] # undefined THEN [prev EXCEPT ![field] = undefined] ELSE prev

\* An input handler without the error-clearing branch.
handleInputChangeNoClear(field, value) ==
    /\ formData' = SetField(formData, field, value)
    /\ errors' = errors
    /\ UNCHANGED <<isSubmitting, timers, console>>

handleInputChange(field, value) ==
    /\ formData' = SetField(formData, field, value)
    /\ errors' = ClearError(errors, field)
    /\ UNCHANGED <<isSubmitting, timers, console>>

\* A text control without the disabled attribute.
ChangeInputAlways(field, value) == handleInputChange(field, value)

\* onChange of an enabled control.
ChangeInput(field, value) ==
    /\ ~disabled
    /\ handleInputChange(field, value)

\* The arrow function passed to setTimeout closes over the formData of the
\* render in which the handler ran.
Closure(handler) == [handler |-> handler, formData |-> formData]

\* Room left for one more submission within the model's bound.
CanStart == Len(console) + Len(timers) < MaxEvents

\* A handler that schedules the completion without setting the flag.
StartSubmissionNoFlag(handler) ==
    /\ CanStart
    /\ isSubmitting' = isSubmitting
    /\ timers' = Append(timers, Closure(handler))
    /\ UNCHANGED <<formData, console>>

\* The part of a submit handler after a successful validation.
StartSubmission(handler) ==
    /\ CanStart
    /\ isSubmitting' = TRUE
    /\ timers' = Append(timers, Closure(handler))
    /\ UNCHANGED <<formData, console>>

\* The early return after a failed validation.
RejectSubmission ==
    UNCHANGED <<formData, isSubmitting, timers, console>>

handleCreatePost ==
    /\ validateForm(PostFields)
    /\ IF ~validateFormResult(PostFields)
       THEN RejectSubmission
       ELSE StartSubmission("createPost")

handleAddComment ==
    /\ validateForm(CommentFields)
    /\ IF ~validateFormResult(CommentFields)
       THEN RejectSubmission
       ELSE StartSubmission("addComment")

\* onSubmit of the post form, reached through its enabled submit button.
SubmitPostForm ==
    /\ ~disabled
    /\ handleCreatePost

\* onSubmit of the comment form, reached through its enabled submit button.
SubmitCommentForm ==
    /\ ~disabled
    /\ handleAddComment

\* A log entry with the two values swapped.
CreatePostEventSwapped(fd) ==
    [op |-> "createPost", title |-> fd.postContent, content |-> fd.postTitle]

\* console.log('Creating Post:', {title, content, timestamp})
CreatePostEvent(fd) ==
    [op |-> "createPost", title |-> fd.postTitle, content |-> fd.postContent]

\* console.log('Adding Comment:', {comment, timestamp})
AddCommentEvent(fd) ==
    [op |-> "addComment", comment |-> fd.comment]

\* setFormData(prev => ({ ...prev, postTitle: '', postContent: '' }))
ResetPostFields(prev) ==
    [prev EXCEPT !.postTitle = EmptyString, !.postContent = EmptyString]

\* A completion that forgets the reset.
KeepCommentField(prev) == prev

\* A completion that resets the whole form.
ResetAllFields(prev) == [f \in Fields |-> EmptyString]

\* setFormData(prev => ({ ...prev, comment: '' }))
ResetCommentField(prev) == [prev EXCEPT !.comment = EmptyString]

\* The callback scheduled by handleCreatePost.
CreatePostCallback(c) ==
    /\ console' = Append(console, CreatePostEvent(c.formData))
    /\ formData' = ResetPostFields(formData)
    /\ isSubmitting' = FALSE

\* A callback that never clears the flag.
AddCommentCallbackStuck(c) ==
    /\ console' = Append(console, AddCommentEvent(c.formData))
    /\ formData' = ResetCommentField(formData)
    /\ isSubmitting' = isSubmitting

\* The callback scheduled by handleAddComment.
AddCommentCallback(c) ==
    /\ console' = Append(console, AddCommentEvent(c.formData))
    /\ formData' = ResetCommentField(formData)
    /\ isSubmitting' = FALSE

\* A completion that also empties the error mapping.
TimerFiresClearsErrors ==
    /\ timers # <<>>
    /\ IF Head(timers).handler = "createPost"
       THEN CreatePostCallback(Head(timers))
       ELSE AddCommentCallback(Head(timers))
    /\ timers' = Tail(timers)
    /\ errors' = [f \in Fields |-> undefined]

\* The earliest pending timer expires (all delays are the same 500 ms).
TimerFires ==
    /\ timers # <<>>
    /\ IF Head(timers).handler = "createPost"
       THEN CreatePostCallback(Head(timers))
       ELSE AddCommentCallback(Head(timers))
    /\ timers' = Tail(timers)
    /\ UNCHANGED errors

Init ==
    /\ formData = [f \in Fields |-> EmptyString]
    /\ errors = [f \in Fields |-> undefined]
    /\ isSubmitting = FALSE
    /\ timers = <<>>
    /\ console = <<>>
    /\ lastValidated = [f \in Fields |-> "never"]
    /\ editedSince = [f \in Fields |-> FALSE]
    /\ lastStep = "mount"

hist == <<lastValidated, editedSince, lastStep>>

\* The component itself; the history variables are not kept.
Next ==
    \/ \E field \in Fields, value \in InputValues :
          ChangeInput(field, value) /\ UNCHANGED hist
    \/ SubmitPostForm /\ UNCHANGED hist
    \/ SubmitCommentForm /\ UNCHANGED hist
    \/ TimerFires /\ UNCHANGED hist

Spec == Init /\ [][Next]_vars

\* The browser's timer queue runs every callback whose delay has elapsed.
FairSpec == Spec /\ WF_vars(TimerFires /\ UNCHANGED hist)

\* History of a validation pass: every field of the subset is looked at,
\* and its trimmed value is found empty or not.
RecordValidation(fieldsToValidate) ==
    /\ lastValidated' =
          [f \in Fields |->
              IF f \in fieldsToValidate
              THEN (IF trim(formData[f]) = <<>> THEN "empty" ELSE "nonempty")
              ELSE lastValidated[f]]
    /\ editedSince' =
          [f \in Fields |-> IF f \in fieldsToValidate THEN FALSE ELSE editedSince[f]]

\* History of an edit through handleInputChange.
RecordEdit(field) ==
    /\ editedSince' = [editedSince EXCEPT ![field] = TRUE]
    /\ UNCHANGED lastValidated

\* History of which handler or callback ran.
RecordStep(name) == lastStep' = name

\* The same component, with the history of validations and edits kept.
HistNext ==
    \/ \E field \in Fields, value \in InputValues :
          /\ ChangeInput(field, value)
          /\ RecordEdit(field)
          /\ UNCHANGED lastStep
    \/ /\ SubmitPostForm
       /\ RecordValidation(PostFields)
       /\ UNCHANGED lastStep
    \/ /\ SubmitCommentForm
       /\ RecordValidation(CommentFields)
       /\ UNCHANGED lastStep
    \/ /\ TimerFires
       /\ UNCHANGED hist

HistSpec == Init /\ [][HistNext]_vars

\* The same component, with the name of the last handler or callback kept.
StepNext ==
    \/ \E field \in Fields, value \in InputValues :
          /\ ChangeInput(field, value)
          /\ RecordStep("handleInputChange")
          /\ UNCHANGED <<lastValidated, editedSince>>
    \/ /\ SubmitPostForm
       /\ RecordStep("handleCreatePost")
       /\ UNCHANGED <<lastValidated, editedSince>>
    \/ /\ SubmitCommentForm
       /\ RecordStep("handleAddComment")
       /\ UNCHANGED <<lastValidated, editedSince>>
    \/ /\ TimerFires
       /\ RecordStep(Head(timers).handler)
       /\ UNCHANGED <<lastValidated, editedSince>>

StepSpec == Init /\ [][StepNext]_vars

TypeOK ==
    /\ formData \in [Fields -> InputValues]
    /\ errors \in [Fields -> {undefined} \cup {RequiredMessage(f) : f \in Fields}]
    /\ isSubmitting \in BOOLEAN
    /\ Len(timers) <= MaxEvents
    /\ Len(console) <= MaxEvents

(***************************************************************************)
(* Claims                                                                  *)
(***************************************************************************)

Last(seq) == seq[Len(seq)]

NonBlank(text) == trim(text) # <<>>

\* The messages as the specification fixes them.
FixedMessage ==
    [postTitle |-> "Post title is required",
     postContent |-> "Post content is required",
     comment |-> "Comment is required"]

\* C1: a post submit intent with a title and a content that are non-empty
\* after trimming sets isSubmitting and schedules one completion holding the
\* values of the fields; when that completion runs, exactly one createPost
\* event with those values is logged, postTitle and postContent become the
\* empty string and isSubmitting becomes false.
C1_PostSubmission ==
    [][ /\ ( /\ lastStep' = "handleCreatePost"
             /\ NonBlank(formData.postTitle)
             /\ NonBlank(formData.postContent) )
           => /\ isSubmitting = FALSE
              /\ isSubmitting' = TRUE
              /\ Len(timers') = Len(timers) + 1
              /\ Last(timers').handler = "createPost"
              /\ Last(timers').formData.postTitle = formData.postTitle
              /\ Last(timers').formData.postContent = formData.postContent
        /\ lastStep' = "createPost"
           => /\ Head(timers).handler = "createPost"
              /\ console' =
                    Append(console,
                           [op |-> "createPost",
                            title |-> Head(timers).formData.postTitle,
                            content |-> Head(timers).formData.postContent])
              /\ formData'.postTitle = <<>>
              /\ formData'.postContent = <<>>
              /\ isSubmitting' = FALSE
      ]_vars

\* A post completion has just run: its event is the last one logged, it
\* carries two different non-empty values, and the post fields are empty.
C1_Witness ==
    /\ lastStep = "createPost"
    /\ ~isSubmitting
    /\ Last(console).op = "createPost"
    /\ NonBlank(Last(console).title)
    /\ Last(console).title # Last(console).content
    /\ formData.postTitle = <<>>
    /\ formData.postContent = <<>>

\* C2: a comment submit intent with a comment that is non-empty after
\* trimming sets isSubmitting and schedules one completion holding the value
\* of the field; when that completion runs, exactly one addComment event with
\* that value is logged, comment becomes the empty string and isSubmitting
\* becomes false.
C2_CommentSubmission ==
    [][ /\ ( /\ lastStep' = "handleAddComment"
             /\ NonBlank(formData.comment) )
           => /\ isSubmitting = FALSE
              /\ isSubmitting' = TRUE
              /\ Len(timers') = Len(timers) + 1
              /\ Last(timers').handler = "addComment"
              /\ Last(timers').formData.comment = formData.comment
        /\ lastStep' = "addComment"
           => /\ Head(timers).handler = "addComment"
              /\ console' =
                    Append(console,
                           [op |-> "addComment",
                            comment |-> Head(timers).formData.comment])
              /\ formData'.comment = <<>>
              /\ isSubmitting' = FALSE
      ]_vars

\* A comment completion has just run and logged a padded comment.
C2_Witness ==
    /\ lastStep = "addComment"
    /\ ~isSubmitting
    /\ Last(console).op = "addComment"
    /\ Last(console).comment = <<" ", "b", "\t">>
    /\ formData.comment = <<>>

\* C3: a submit intent of either sub-form with a required field of that
\* sub-form empty or whitespace-only records the fixed message of every such
\* field, leaves isSubmitting false, schedules no completion and logs nothing.
C3_RejectedSubmission ==
    [][ /\ ( /\ lastStep' = "handleCreatePost"
             /\ \E f \in PostFields : ~NonBlank(formData[f]) )
           => /\ \A f \in PostFields :
                    ~NonBlank(formData[f]) => errors'[f] = FixedMessage[f]
              /\ isSubmitting' = FALSE
              /\ timers' = timers
              /\ console' = console
        /\ ( /\ lastStep' = "handleAddComment"
             /\ ~NonBlank(formData.comment) )
           => /\ errors'.comment = FixedMessage.comment
              /\ isSubmitting' = FALSE
              /\ timers' = timers
              /\ console' = console
      ]_vars

\* A post submit intent has just been rejected because of a whitespace-only
\* content, next to a valid title.
C3_Witness ==
    /\ lastStep = "handleCreatePost"
    /\ NonBlank(formData.postTitle)
    /\ formData.postContent # <<>>
    /\ errors.postContent = "Post content is required"
    /\ errors.postTitle = undefined
    /\ ~isSubmitting
    /\ timers = <<>>

\* C4: at no time are two delayed completions pending, and while
\* isSubmitting is true every control is disabled: the only step is the
\* completion itself, so no step adds a completion, runs a handler or
\* changes an error.
C4_SingleFlight ==
    /\ [](Len(timers) <= 1)
    /\ [][ isSubmitting
             => /\ Len(timers') < Len(timers)
                /\ lastStep' \in {"createPost", "addComment"}
                /\ errors' = errors
         ]_vars

\* A submission is in flight after an earlier one has completed.
C4_Witness ==
    /\ isSubmitting
    /\ Len(timers) = 1
    /\ Len(console) >= 1

\* C5: an edit of a field that has a recorded error removes that error in
\* the same step, whatever the new value (empty and whitespace-only
\* included), and no edit records an error that was not there.
C5_EditClearsError ==
    [][ \A f \in Fields, v \in InputValues :
           ChangeInput(f, v)
             => /\ errors[f] # undefined => errors'[f] = undefined
                /\ \A g \in Fields : errors'[g] # undefined => errors'[g] = errors[g]
      ]_vars

\* A field was validated and found empty, then edited to a whitespace-only
\* value, and shows no error.
C5_Witness ==
    \E f \in Fields :
        /\ lastValidated[f] = "empty"
        /\ editedSince[f]
        /\ formData[f] = <<" ", "\t">>
        /\ errors[f] = undefined

\* C6: the validation pass of a comment submit intent leaves the error
\* entries of postTitle and postContent as they were, and the pass of a post
\* submit intent leaves the error entry of comment as it was.
C6_PartialValidation ==
    [][ /\ lastStep' = "handleAddComment"
           => /\ errors'.postTitle = errors.postTitle
              /\ errors'.postContent = errors.postContent
        /\ lastStep' = "handleCreatePost"
           => errors'.comment = errors.comment
      ]_vars

\* A comment submit intent has just been rejected while postTitle kept its
\* error and postContent kept having none.
C6_Witness ==
    /\ lastStep = "handleAddComment"
    /\ errors.comment = "Comment is required"
    /\ errors.postTitle = "Post title is required"
    /\ errors.postContent = undefined

\* C7: an edit of one field changes only that field's value and that field's
\* error entry: isSubmitting, the other fields' values and error entries,
\* the pending completions and the logged events are unchanged.
C7_EditFrame ==
    [][ \A f \in Fields, v \in InputValues :
           ChangeInput(f, v)
             => /\ isSubmitting' = isSubmitting
                /\ timers' = timers
                /\ console' = console
                /\ \A g \in Fields \ {f} :
                      /\ formData'[g] = formData[g]
                      /\ errors'[g] = errors[g]
      ]_vars

\* An edit has just run next to two other fields that keep their errors.
C7_Witness ==
    /\ lastStep = "handleInputChange"
    /\ NonBlank(formData.postTitle)
    /\ errors.postTitle = undefined
    /\ errors.postContent = "Post content is required"
    /\ errors.comment = "Comment is required"

\* C8: the completion of a post submission leaves the comment field's value
\* unchanged, and the completion of a comment submission leaves postTitle and
\* postContent unchanged.
C8_CompletionFrame ==
    [][ /\ lastStep' = "createPost"
           => formData'.comment = formData.comment
        /\ lastStep' = "addComment"
           => /\ formData'.postTitle = formData.postTitle
              /\ formData'.postContent = formData.postContent
      ]_vars

\* A comment completion has just run next to a non-empty post draft.
C8_Witness ==
    /\ lastStep = "addComment"
    /\ NonBlank(formData.postTitle)
    /\ NonBlank(formData.postContent)
    /\ formData.comment = <<>>

\* C9: a pending completion is removed only by running it, and, the timer
\* callback being fair, every state with isSubmitting true is followed by one
\* where the completion has logged its event, isSubmitting is false and the
\* fields of the submitted sub-form are empty.
C9_NoCancellation ==
    /\ [][ timers # <<>>
             => \/ timers' = timers
                \/ /\ timers' = Tail(timers)
                   /\ Len(console') = Len(console) + 1
         ]_vars
    /\ [](isSubmitting => timers # <<>>)
    /\ \A n \in 0..MaxEvents :
          /\ ( /\ isSubmitting
               /\ Len(console) = n
               /\ timers # <<>>
               /\ Head(timers).handler = "createPost" )
                ~> ( /\ ~isSubmitting
                     /\ Len(console) = n + 1
                     /\ formData.postTitle = <<>>
                     /\ formData.postContent = <<>> )
          /\ ( /\ isSubmitting
               /\ Len(console) = n
               /\ timers # <<>>
               /\ Head(timers).handler = "addComment" )
                ~> ( /\ ~isSubmitting
                     /\ Len(console) = n + 1
                     /\ formData.comment = <<>> )

\* A scheduled completion has run: nothing is pending and its event is logged.
C9_Witness ==
    /\ ~isSubmitting
    /\ timers = <<>>
    /\ Len(console) >= 1
    /\ Last(console).op = "createPost"
    /\ formData.postTitle = <<>>

\* C10 as stated: an error is present for a field if and only if the field
\* was last validated and found empty after trimming.
C10_Original ==
    \A f \in Fields :
        errors[f] # undefined <=> lastValidated[f] = "empty"

\* C10 as amended: an error is present for a field if and only if the
\* field's last validation found it empty after trimming and the field has
\* not been edited since that validation.
C10_ErrorState ==
    \A f \in Fields :
        errors[f] # undefined <=> (lastValidated[f] = "empty" /\ ~editedSince[f])

\* One field shows the error of its last validation while another, found
\* empty by the same validation, was edited since and shows none.
C10_Witness ==
    /\ lastValidated.postTitle = "empty"
    /\ lastValidated.postContent = "empty"
    /\ editedSince.postTitle
    /\ ~editedSince.postContent
    /\ errors.postTitle = undefined
    /\ errors.postContent = "Post content is required"

\* C11: a post submit intent starts a submission if and only if postTitle
\* and postContent are both non-empty after trimming, and a comment submit
\* intent if and only if comment is, whatever the post fields hold.  A submit
\* intent resets no field, and the only error entries it changes are those of
\* the empty fields of its own sub-form, which get their fixed message.
C11_AllOrNothing ==
    [][ /\ lastStep' = "handleCreatePost"
           => /\ isSubmitting' <=>
                    (NonBlank(formData.postTitle) /\ NonBlank(formData.postContent))
              /\ (timers' # timers) <=>
                    (NonBlank(formData.postTitle) /\ NonBlank(formData.postContent))
              /\ formData' = formData
              /\ \A f \in Fields :
                    errors'[f] # errors[f]
                      => /\ f \in PostFields
                         /\ ~NonBlank(formData[f])
                         /\ errors'[f] = FixedMessage[f]
        /\ lastStep' = "handleAddComment"
           => /\ isSubmitting' <=> NonBlank(formData.comment)
              /\ (timers' # timers) <=> NonBlank(formData.comment)
              /\ formData' = formData
              /\ \A f \in Fields :
                    errors'[f] # errors[f]
                      => /\ f = "comment"
                         /\ ~NonBlank(formData[f])
                         /\ errors'[f] = FixedMessage[f]
      ]_vars

\* A post submit intent has just been refused for its empty title alone: the
\* padded content keeps its value and has no error, and nothing is in flight.
C11_Witness ==
    /\ lastStep = "handleCreatePost"
    /\ formData.postTitle = <<>>
    /\ formData.postContent = <<" ", "b", "\t">>
    /\ errors.postTitle = "Post title is required"
    /\ errors.postContent = undefined
    /\ ~isSubmitting
    /\ timers = <<>>

\* C12: a recorded error stays recorded, with the same message, through
\* every step that is not an edit of its own field (validation passes, edits
\* of other fields, the start of a submission, a completion and its reset);
\* the step that changes it is an edit of that field, and removes it.
C12_ErrorPersistence ==
    [][ \A f \in Fields :
           (errors[f] # undefined /\ errors'[f] # errors[f])
             => /\ lastStep' = "handleInputChange"
                /\ ChangeInput(f, formData'[f])
                /\ errors'[f] = undefined
      ]_vars

\* The error of comment, recorded before a post submission started, is still
\* there right after that submission completed and reset the post fields.
C12_Witness ==
    /\ lastStep = "createPost"
    /\ errors.comment = "Comment is required"
    /\ formData.postTitle = <<>>
    /\ formData.postContent = <<>>
    /\ Last(console).op = "createPost"

\* C13: whether a control responds depends on the flag alone.  While
\* isSubmitting is false, an edit of each field to each text and both submit
\* intents are enabled, whatever the fields hold and whatever errors are
\* recorded (a submit intent that would start a submission beyond the
\* model's bound of MaxEvents aside); while it is true, none of them is.
C13_Enabledness ==
    /\ ~isSubmitting
         => /\ \A f \in Fields, v \in InputValues : ENABLED ChangeInput(f, v)
            /\ (ENABLED SubmitPostForm) \/ Len(console) >= MaxEvents
            /\ (ENABLED SubmitCommentForm) \/ Len(console) >= MaxEvents
            /\ (\E f \in PostFields : ~NonBlank(formData[f]))
                  => ENABLED SubmitPostForm
            /\ ~NonBlank(formData.comment) => ENABLED SubmitCommentForm
    /\ isSubmitting
         => /\ \A f \in Fields, v \in InputValues : ~ENABLED ChangeInput(f, v)
            /\ ~ENABLED SubmitPostForm
            /\ ~ENABLED SubmitCommentForm

\* Every field is blank and shows its error after an earlier submission
\* completed: the controls still respond.
C13_Witness ==
    /\ ~isSubmitting
    /\ Len(console) = 1
    /\ \A f \in Fields : ~NonBlank(formData[f]) /\ errors[f] = FixedMessage[f]
    /\ formData.comment = <<" ", "\t">>

\* C14: isSubmitting is true exactly when one delayed completion is pending;
\* it turns true only in a submit handler whose validation succeeded, and
\* turns false only in the delayed callback, which leaves the pending set.
C14_FlagTimerAgreement ==
    /\ [](isSubmitting <=> Len(timers) = 1)
    /\ [](~isSubmitting <=> timers = <<>>)
    /\ [][ /\ (~isSubmitting /\ isSubmitting')
              => \/ /\ lastStep' = "handleCreatePost"
                    /\ NonBlank(formData.postTitle)
                    /\ NonBlank(formData.postContent)
                 \/ /\ lastStep' = "handleAddComment"
                    /\ NonBlank(formData.comment)
           /\ (isSubmitting /\ ~isSubmitting')
              => /\ lastStep' \in {"createPost", "addComment"}
                 /\ lastStep' = Head(timers).handler
                 /\ timers' = Tail(timers)
         ]_vars

\* A comment submit intent has just set the flag and scheduled the one
\* pending completion.
C14_Witness ==
    /\ lastStep = "handleAddComment"
    /\ isSubmitting
    /\ Len(timers) = 1
    /\ Head(timers).handler = "addComment"

\* C15: whenever an error is recorded for a field, the current value of that
\* field is empty after trimming, and the error is the field's fixed message.
C15_ErrorImpliesBlank ==
    \A f \in Fields :
        errors[f] # undefined
          => /\ ~NonBlank(formData[f])
             /\ errors[f] = FixedMessage[f]

\* A comment submit intent has just recorded the error of a whitespace-only
\* comment, next to post fields that are filled in and show no error.
C15_Witness ==
    /\ lastStep = "handleAddComment"
    /\ formData.comment = <<" ", "\t">>
    /\ errors.comment = "Comment is required"
    /\ NonBlank(formData.postTitle)
    /\ NonBlank(formData.postContent)
    /\ errors.postTitle = undefined
    /\ errors.postContent = undefined

\* C16: every createPost event logged carries a title and a content that are
\* non-empty after trimming, and every addComment event a comment that is;
\* the values a completion logs are the values the fields hold right before
\* it resets them; and a submit intent whose validation failed logs nothing
\* and schedules nothing that could.
C16_EventSafety ==
    /\ [](\A i \in 1..Len(console) :
             IF console[i].op = "createPost"
             THEN NonBlank(console[i].title) /\ NonBlank(console[i].content)
             ELSE console[i].op = "addComment" /\ NonBlank(console[i].comment))
    /\ [][ /\ lastStep' = "createPost"
              => /\ Len(console') = Len(console) + 1
                 /\ SubSeq(console', 1, Len(console)) = console
                 /\ Last(console').op = "createPost"
                 /\ Last(console').title = formData.postTitle
                 /\ Last(console').content = formData.postContent
           /\ lastStep' = "addComment"
              => /\ Len(console') = Len(console) + 1
                 /\ SubSeq(console', 1, Len(console)) = console
                 /\ Last(console').op = "addComment"
                 /\ Last(console').comment = formData.comment
           /\ ( /\ lastStep' = "handleCreatePost"
                /\ \E f \in PostFields : ~NonBlank(formData[f]) )
              => console' = console /\ timers' = timers
           /\ ( /\ lastStep' = "handleAddComment"
                /\ ~NonBlank(formData.comment) )
              => console' = console /\ timers' = timers
         ]_vars

\* A post completion has just logged a padded title as the field held it,
\* after an earlier comment event.
C16_Witness ==
    /\ lastStep = "createPost"
    /\ Len(console) = 2
    /\ console[1].op = "addComment"
    /\ console[2].op = "createPost"
    /\ console[2].title = <<" ", "b", "\t">>
    /\ console[2].content = <<"a">>

\* The fields a pending completion belongs to.
SubForm(handler) == IF handler = "createPost" THEN PostFields ELSE CommentFields

\* C17: from a successful submit intent to its delayed completion, the three
\* field values are the ones the handler saw and no step changes them, no
\* step from the submit intent up to and including the completion changes an
\* error entry, and the fields of the sub-form being submitted have no
\* recorded error.
C17_InFlightFrame ==
    /\ [](isSubmitting
            => /\ timers # <<>>
               /\ formData = Head(timers).formData
               /\ \A f \in SubForm(Head(timers).handler) : errors[f] = undefined)
    /\ [][ /\ isSubmitting' => formData' = formData
           /\ (isSubmitting \/ isSubmitting') => errors' = errors
         ]_vars

\* A post submission is in flight while the whitespace-only comment keeps
\* the error recorded before it started.
C17_Witness ==
    /\ lastStep = "handleCreatePost"
    /\ isSubmitting
    /\ errors.comment = "Comment is required"
    /\ formData.comment = <<" ", "\t">>
    /\ errors.postTitle = undefined
    /\ errors.postContent = undefined

====
